---------------------------- MODULE Spec2Model ----------------------------
(***************************************************************************)
(* A model of artichoke's Time/Offset boundary:                            *)
(*   - spinoso-time  src/time/tzrs/offset.rs   (Offset, its parser)        *)
(*   - artichoke-backend  extn/core/time/trampoline.rs   (Time.at, ...)    *)
(*                                                                         *)
(* Texts are sequences of characters; a character is a one-character       *)
(* string, except the non-ASCII decimal digit "U+0663".  Every handler is  *)
(* one action: it reads the pending call and writes the call's outcome.    *)
(***************************************************************************)
EXTENDS Integers, Sequences, FiniteSets, TLC

VARIABLES
    call,       \* the pending or finished call: operation and arguments
    pc,         \* "call" before the handler ran, "done" after
    ret,        \* what Offset::try_from / Offset::from returned (to its caller)
    heap,       \* the boxed objects, by handle: Times and foreign objects
    result,     \* what the trampoline returned to the interpreter
    steps       \* how far Time.at got, and what it computed on the way

vars == <<call, pc, ret, heap, result, steps>>

(***************************************************************************)
(* Bounds of the model.                                                    *)
(***************************************************************************)
\* longest text over SmallAlphabet that is enumerated in full
MaxTextLen == 5
\* Offset::from is applied to every s in -MaxSmallSecs..MaxSmallSecs
MaxSmallSecs == 130

(***************************************************************************)
(* Characters and decimal text.                                            *)
(***************************************************************************)
Digits == <<"0", "1", "2", "3", "4", "5", "6", "7", "8", "9">>

AsciiDigit == {Digits[i] : i \in 1..10}

\* a decimal digit outside ASCII (ARABIC-INDIC DIGIT THREE): the regex class
\* \d is Unicode-aware and matches it, str::parse::<i32> rejects it
NonAsciiDigit == {"U+0663"}

UpperCase ==
    {"A", "B", "C", "D", "E", "F", "G", "H", "I", "J", "K", "L", "M",
     "N", "O", "P", "Q", "R", "S", "T", "U", "V", "W", "X", "Y", "Z"}

DigitValue(c) == (CHOOSE i \in 1..10 : Digits[i] = c) - 1

RECURSIVE ToDecimal(_)
\* Display of a non-negative integer: its decimal digits, no padding
ToDecimal(n) ==
    IF n < 10 THEN <<Digits[n + 1]>>
    ELSE Append(ToDecimal(n \div 10), Digits[(n % 10) + 1])

\* Display of any i32 (a leading '-' when negative); n > -2^31
Display(n) == IF n < 0 THEN <<"-">> \o ToDecimal(-n) ELSE ToDecimal(n)

\* the format spec {:0>2}: right-aligned, filled with '0' to a width of at
\* least 2; a longer text is left as it is
PadZero2(t) == IF Len(t) < 2 THEN <<"0">> \o t ELSE t

(***************************************************************************)
(* offset.rs: constants, offset_hhmm_from_seconds, Offset                  *)
(***************************************************************************)
SECONDS_IN_MINUTE == 60
SECONDS_IN_HOUR == SECONDS_IN_MINUTE * 60

I32_MAX == 2147483647
I32_MIN == -2147483647 - 1

\* fn offset_hhmm_from_seconds(seconds: i32) -> String, for seconds > i32::MIN
\* (seconds.abs() overflows at i32::MIN; fixed handles that value)
offset_hhmm_from_seconds(seconds) ==
    LET flag == IF seconds < 0 THEN "-" ELSE "+"
        abs == IF seconds < 0 THEN -seconds ELSE seconds
        minutes == abs \div 60
        offset_hours == minutes \div 60
        offset_minutes == minutes - (offset_hours * 60)
    IN  <<flag>> \o PadZero2(Display(offset_hours)) \o PadZero2(Display(offset_minutes))

\* enum Offset { Utc, Fixed([LocalTimeType; 1]), Tz(TimeZoneRef) }: the variant,
\* and for Fixed the LocalTimeType's ut_offset and time zone designation
OffsetUtc == [tag |-> "Utc", ut_offset |-> 0, name |-> <<>>]
OffsetFixed(s, n) == [tag |-> "Fixed", ut_offset |-> s, name |-> n]
OffsetTz == [tag |-> "Tz", ut_offset |-> 0, name |-> <<"l", "o", "c", "a", "l">>]
NoOffset == [tag |-> "None", ut_offset |-> 0, name |-> <<>>]

\* what a call on Offset returns: Ok(offset), Err(TzStringError(text)), or a panic
Ok(o) == [kind |-> "Ok", offset |-> o, err |-> <<>>]
Err(t) == [kind |-> "Err", offset |-> NoOffset, err |-> t]
Panic == [kind |-> "Panic", offset |-> NoOffset, err |-> <<>>]
NoRet == [kind |-> "None", offset |-> NoOffset, err |-> <<>>]

\* LocalTimeType::new(ut_offset, false, Some(designation)) of tz-rs, as called by
\* Offset::fixed: Err for ut_offset = i32::MIN, and for a designation that has not
\* 3 to 7 characters, each an ASCII letter, digit, '+' or '-'
LocalTimeTypeNewIsOk(ut_offset, designation) ==
    /\ ut_offset # I32_MIN
    /\ Len(designation) >= 3
    /\ Len(designation) <= 7

\* Offset::utc
utc == OffsetUtc

\* Offset::local
local == OffsetTz

\* Offset::fixed(offset: i32): .expect() panics when LocalTimeType::new fails.
\* At i32::MIN, seconds.abs() panics in a debug build and wraps in a release
\* build, where LocalTimeType::new then rejects the offset: a panic either way.
fixed(offset) ==
    IF offset = I32_MIN THEN Panic
    ELSE LET offset_name == offset_hhmm_from_seconds(offset)
         IN  IF LocalTimeTypeNewIsOk(offset, offset_name)
             THEN Ok(OffsetFixed(offset, offset_name))
             ELSE Panic

\* impl From<i32> for Offset
from_i32(seconds) == fixed(seconds)

\* Offset::time_zone_ref().local_time_types()[0].ut_offset(): the displayed offset
ut_offset_of(o) == o.ut_offset

(***************************************************************************)
(* offset.rs: impl TryFrom<&str> for Offset                                *)
(***************************************************************************)
\* the single-letter arms of the match in try_from: the argument of Self::fixed
MilitaryArms ==
    [c \in UpperCase \ {"J", "Z"} |->
        CASE c = "A" -> 1   [] c = "B" -> 2   [] c = "C" -> 3   [] c = "D" -> 4
          [] c = "E" -> 5   [] c = "F" -> 6   [] c = "G" -> 7   [] c = "H" -> 8
          [] c = "I" -> 9   [] c = "K" -> 10  [] c = "L" -> 11  [] c = "M" -> 12
          [] c = "N" -> -1  [] c = "O" -> -2  [] c = "P" -> -3  [] c = "Q" -> -4
          [] c = "R" -> -5  [] c = "S" -> -6  [] c = "T" -> -7  [] c = "U" -> -8
          [] c = "V" -> -9  [] c = "W" -> -10 [] c = "X" -> -11 [] c = "Y" -> -12]

\* a faulty variant of HH_MM_MATCHER: the pattern is not anchored at the end
HH_MM_MATCHER_unanchored(input) ==
    /\ Len(input) >= 5
    /\ input[1] \in {"+", "-"}
    /\ \A i \in 2..5 : input[i] \in AsciiDigit \cup NonAsciiDigit

\* HH_MM_MATCHER, ^([\-\+]{1})(\d{2})(\d{2})$ : $ is the end of the text, and \d
\* is any Unicode decimal digit
HH_MM_MATCHER_is_match(input) ==
    /\ Len(input) = 5
    /\ input[1] \in {"+", "-"}
    /\ \A i \in 2..5 : input[i] \in AsciiDigit \cup NonAsciiDigit

\* str::parse::<i32> of a two-character capture: Ok for ASCII digits only
ParseI32IsOk(t) == \A i \in 1..Len(t) : t[i] \in AsciiDigit
ParseI32(t) == DigitValue(t[1]) * 10 + DigitValue(t[2])

\* a faulty variant of the +-HHMM arm: the sign capture is ignored
hh_mm_arm_unsigned(input) ==
    LET hh == SubSeq(input, 2, 3)
        mm == SubSeq(input, 4, 5)
    IN  IF ~ParseI32IsOk(hh) \/ ~ParseI32IsOk(mm) THEN Panic
        ELSE fixed((ParseI32(hh) * SECONDS_IN_HOUR) + (ParseI32(mm) * SECONDS_IN_MINUTE))

\* the body of `if HH_MM_MATCHER.is_match(input)`: both .parse().unwrap() are
\* evaluated before the offset is built
hh_mm_arm(input) ==
    LET hh == SubSeq(input, 2, 3)
        mm == SubSeq(input, 4, 5)
    IN  IF ~ParseI32IsOk(hh) \/ ~ParseI32IsOk(mm) THEN Panic
        ELSE LET sign == IF input[1] = "+" THEN 1 ELSE -1
                 hours == ParseI32(hh)
                 minutes == ParseI32(mm)
                 offset_seconds ==
                     sign * ((hours * SECONDS_IN_HOUR) + (minutes * SECONDS_IN_MINUTE))
             IN  fixed(offset_seconds)

\* a faulty variant of try_from: "UTC" is not matched by the Z arm
try_from_no_utc_literal(input) ==
    IF Len(input) = 1 /\ input[1] \in DOMAIN MilitaryArms
    THEN fixed(MilitaryArms[input[1]])
    ELSE IF input = <<"Z">> THEN Ok(utc)
    ELSE IF HH_MM_MATCHER_is_match(input) THEN hh_mm_arm(input)
    ELSE Err(input)

\* fn try_from(input: &str) -> Result<Offset, TzStringError>
try_from(input) ==
    IF Len(input) = 1 /\ input[1] \in DOMAIN MilitaryArms
    THEN fixed(MilitaryArms[input[1]])
    ELSE IF input \in {<<"Z">>, <<"U", "T", "C">>} THEN Ok(utc)
    ELSE IF HH_MM_MATCHER_is_match(input) THEN hh_mm_arm(input)
    ELSE Err(input)

(***************************************************************************)
(* 64-bit integers.  An i64 is kept as a sign and a magnitude in base 1000 *)
(* (least significant limb first, no leading zero limb), so that values up *)
(* to 2^63 and the overflow of checked_mul are computed exactly.           *)
(***************************************************************************)
LimbBase == 1000

RECURSIVE MagOfNat(_)
MagOfNat(n) == IF n = 0 THEN <<>> ELSE <<n % LimbBase>> \o MagOfNat(n \div LimbBase)

\* the i64 of an integer n with -2^31 < n < 2^31
I64Of(n) == IF n < 0 THEN [neg |-> TRUE, mag |-> MagOfNat(-n)]
            ELSE [neg |-> FALSE, mag |-> MagOfNat(n)]

I64Neg(m) == [neg |-> TRUE, mag |-> m]
I64Pos(m) == [neg |-> FALSE, mag |-> m]

RECURSIVE MagLeq(_, _)
\* a <= b on magnitudes
MagLeq(a, b) ==
    IF Len(a) # Len(b) THEN Len(a) < Len(b)
    ELSE IF Len(a) = 0 THEN TRUE
    ELSE IF a[Len(a)] # b[Len(b)] THEN a[Len(a)] < b[Len(b)]
    ELSE MagLeq(SubSeq(a, 1, Len(a) - 1), SubSeq(b, 1, Len(b) - 1))

\* a <= b on i64 values
I64Leq(a, b) ==
    IF a.neg /\ ~b.neg THEN TRUE
    ELSE IF ~a.neg /\ b.neg THEN FALSE
    ELSE IF a.neg THEN MagLeq(b.mag, a.mag)
    ELSE MagLeq(a.mag, b.mag)

RECURSIVE MagTimes(_, _, _)
\* magnitude a times m plus carry, for 0 <= m <= 1000000
MagTimes(a, m, carry) ==
    IF Len(a) = 0 THEN MagOfNat(carry)
    ELSE LET p == (a[1] * m) + carry
         IN  <<p % LimbBase>> \o MagTimes(Tail(a), m, p \div LimbBase)

RECURSIVE MagValue(_)
\* the integer of a magnitude below 2^31
MagValue(a) == IF Len(a) = 0 THEN 0 ELSE a[1] + (LimbBase * MagValue(Tail(a)))

\* i64::MAX = 9_223_372_036_854_775_807 and i64::MIN
I64_MAX == I64Pos(<<807, 775, 854, 36, 372, 223, 9>>)
I64_MIN == I64Neg(<<808, 775, 854, 36, 372, 223, 9>>)

InI64(v) == I64Leq(I64_MIN, v) /\ I64Leq(v, I64_MAX)

\* the mathematical product of an i64 and a multiplier 0 < m <= 1000000
I64Times(v, m) == [neg |-> v.neg, mag |-> MagTimes(v.mag, m, 0)]

\* a faulty variant of checked_mul: the overflow goes unnoticed
checked_mul_unchecked(v, m) == TRUE

\* i64::checked_mul: None exactly when the product is not an i64
checked_mul_is_some(v, m) == InI64(I64Times(v, m))

\* i32::try_from(i64).is_ok()
InI32(v) ==
    /\ I64Leq(I64Neg(<<648, 483, 147, 2>>), v)
    /\ I64Leq(v, I64Of(I32_MAX))

\* the i32 (or u32 below 2^31) of an i64 in that range
I64ToInt(v) ==
    IF v = I64Neg(<<648, 483, 147, 2>>) THEN I32_MIN
    ELSE IF v.neg THEN -MagValue(v.mag) ELSE MagValue(v.mag)

(***************************************************************************)
(* The interpreter's values and the trampoline's results.                  *)
(***************************************************************************)
\* a Value: its Ruby type and, by type, its integer, text, symbol name,
\* (key, value) pairs in insertion order, or nanoseconds of a Float's fraction;
\* a Data value holds the handle of its object in the heap
Fixnum(v) ==
    [ty |-> "Fixnum", int |-> v, text |-> <<>>, sym |-> "", hash |-> <<>>, frac |-> 0]
Str(t) ==
    [ty |-> "String", int |-> I64Of(0), text |-> t, sym |-> "", hash |-> <<>>, frac |-> 0]
Sym(n) ==
    [ty |-> "Symbol", int |-> I64Of(0), text |-> <<>>, sym |-> n, hash |-> <<>>, frac |-> 0]
Hash(h) ==
    [ty |-> "Hash", int |-> I64Of(0), text |-> <<>>, sym |-> "", hash |-> h, frac |-> 0]
Nil ==
    [ty |-> "Nil", int |-> I64Of(0), text |-> <<>>, sym |-> "", hash |-> <<>>, frac |-> 0]
Bool(b) ==
    [ty |-> IF b THEN "True" ELSE "False", int |-> I64Of(0), text |-> <<>>, sym |-> "",
     hash |-> <<>>, frac |-> 0]
Float(seconds, nanos) ==
    [ty |-> "Float", int |-> seconds, text |-> <<>>, sym |-> "", hash |-> <<>>,
     frac |-> nanos]
Data(handle) ==
    [ty |-> "Data", int |-> I64Of(handle), text |-> <<>>, sym |-> "", hash |-> <<>>,
     frac |-> 0]
\* Option<Value>::None
NoValue ==
    [ty |-> "None", int |-> I64Of(0), text |-> <<>>, sym |-> "", hash |-> <<>>, frac |-> 0]

\* Value::ruby_type
ruby_type(v) == v.ty

\* Result<Value, Error> of a trampoline: Ok(value), Err(error), or a panic; an
\* Ok value is the handle of an object (value) or an immediate value (imm)
Return(handle) ==
    [kind |-> "Ok", class |-> "", msg |-> "", value |-> handle, imm |-> NoValue]
ReturnValue(v) == [kind |-> "Ok", class |-> "", msg |-> "", value |-> 0, imm |-> v]
Raise(class, msg) ==
    [kind |-> "Err", class |-> class, msg |-> msg, value |-> 0, imm |-> NoValue]
Abort == [kind |-> "Panic", class |-> "", msg |-> "", value |-> 0, imm |-> NoValue]
NoResult == [kind |-> "None", class |-> "", msg |-> "", value |-> 0, imm |-> NoValue]

\* what Time.at computed: the last stage it entered ("shape", "seconds", "unit",
\* "mul", "range", "options", "timespec", "alloc"), the multiplier (0: none),
\* and the nanoseconds (-1: none)
Steps(stage, mult, nanos) == [stage |-> stage, mult |-> mult, nanos |-> nanos]
NoSteps == Steps("none", 0, -1)

\* struct Time: the instant and the Offset, as boxed by Time::alloc_value
TimeObject(seconds, nanos, offset) ==
    [tag |-> "Time", seconds |-> seconds, nanos |-> nanos, offset |-> offset]

\* an object boxed by another native type: it carries that type's tag
ForeignObject ==
    [tag |-> "Random", seconds |-> I64Of(0), nanos |-> 0, offset |-> NoOffset]

(***************************************************************************)
(* Conversions the trampoline calls.                                       *)
(***************************************************************************)
\* implicitly_convert_to_int: the integer of a Fixnum, a type error otherwise
implicitly_convert_to_int_is_ok(v) == ruby_type(v) = "Fixnum"

\* implicitly_convert_to_string: the text of a String
implicitly_convert_to_string(v) == v.text

\* Symbol::unbox_from_value: succeeds on a Symbol, a type error otherwise
Symbol_unbox_is_ok(v) == ruby_type(v) = "Symbol"

\* spinoso_time::MICROS_IN_NANO
MICROS_IN_NANO == 1000

\* the instants Time::with_timespec_and_offset accepts: nanoseconds below one
\* second, seconds in the range of the zone library's date-times
MIN_UNIX_TIME == I64Neg(<<200, 971, 567, 100, 768, 67>>)
MAX_UNIX_TIME == I64Pos(<<799, 532, 233, 976, 767, 67>>)

with_timespec_and_offset_is_ok(seconds, nanos) ==
    /\ nanos >= 0
    /\ nanos < 1000000000
    /\ I64Leq(MIN_UNIX_TIME, seconds)
    /\ I64Leq(seconds, MAX_UNIX_TIME)

(***************************************************************************)
(* trampoline.rs: subsec_multiplier, offset_from_options                   *)
(***************************************************************************)
MAX_NANOS == 1000000000 - 1

Some(x) == [ok |-> TRUE, val |-> x, err |-> NoResult]
Fail(e) == [ok |-> FALSE, val |-> 0, err |-> e]

\* a faulty variant of subsec_multiplier: no unit means nanoseconds
subsec_multiplier_default_nanos(subsec_type) ==
    IF subsec_type # NoValue
    THEN IF ~Symbol_unbox_is_ok(subsec_type)
         THEN Fail(Raise("TypeError", "uninitialized Symbol"))
         ELSE IF subsec_type.sym = "milliseconds" THEN Some(1000000)
         ELSE IF subsec_type.sym = "usec" THEN Some(1000)
         ELSE IF subsec_type.sym = "nsec" THEN Some(1)
         ELSE Fail(Raise("ArgumentError",
                         "unexpected unit. expects :milliseconds, :usec, :nsec"))
    ELSE Some(1)

\* fn subsec_multiplier(interp, subsec_type: Option<Value>) -> Result<i64, Error>
subsec_multiplier(subsec_type) ==
    IF subsec_type # NoValue
    THEN IF ~Symbol_unbox_is_ok(subsec_type)
         THEN Fail(Raise("TypeError", "uninitialized Symbol"))
         ELSE IF subsec_type.sym = "milliseconds" THEN Some(1000000)
         ELSE IF subsec_type.sym = "usec" THEN Some(1000)
         ELSE IF subsec_type.sym = "nsec" THEN Some(1)
         ELSE Fail(Raise("ArgumentError",
                         "unexpected unit. expects :milliseconds, :usec, :nsec"))
    ELSE Some(MICROS_IN_NANO)

RECURSIVE CollectTz(_)
\* hash.into_iter().map(|(k, v)| ...).collect::<Result<Vec<Value>, Error>>():
\* the values in order, or the error of the first pair that has one
CollectTz(pairs) ==
    IF Len(pairs) = 0 THEN Some(<<>>)
    ELSE LET k == pairs[1].key
             v == pairs[1].val
         IN  IF ~Symbol_unbox_is_ok(k)
             THEN Fail(Raise("TypeError", "uninitialized Symbol"))
             ELSE IF k.sym # "in"
             THEN Fail(Raise("ArgumentError", "unknown keyword"))
             ELSE LET rest == CollectTz(Tail(pairs))
                  IN  IF rest.ok THEN Some(<<v>> \o rest.val) ELSE rest

\* what offset_from_options hands back: the Offset or the error or a panic, and
\* what the Offset call it made returned
FromOptions(kind, offset, err, parsed) ==
    [kind |-> kind, offset |-> offset, err |-> err, parsed |-> parsed]

UtcOffsetTextMsg == "+HH:MM, -HH:MM, UTC, or A..I,K..Z expected for utc_offset"
UtcOffsetAnyMsg ==
    "+HH:MM, -HH:MM, UTC, A..I,K..Z, or a signed number of seconds expected for utc_offset"

\* the match on the single value of `in`
offset_from_tz(tz) ==
    IF ruby_type(tz) = "Fixnum"
    THEN IF ~InI32(tz.int)
         THEN FromOptions("Err", NoOffset, Raise("ArgumentError", "invalid offset"), NoRet)
         ELSE LET r == from_i32(I64ToInt(tz.int))
              IN  IF r.kind = "Ok" THEN FromOptions("Ok", r.offset, NoResult, r)
                  ELSE FromOptions("Panic", NoOffset, Abort, r)
    ELSE IF ruby_type(tz) = "String"
    THEN LET r == try_from(implicitly_convert_to_string(tz))
         IN  IF r.kind = "Ok" THEN FromOptions("Ok", r.offset, NoResult, r)
             ELSE IF r.kind = "Err"
             THEN FromOptions("Err", NoOffset, Raise("ArgumentError", UtcOffsetTextMsg), r)
             ELSE FromOptions("Panic", NoOffset, Abort, r)
    ELSE FromOptions("Err", NoOffset, Raise("ArgumentError", UtcOffsetAnyMsg), NoRet)

\* fn offset_from_options(interp, options: Value) -> Result<Offset, Error>
offset_from_options(options) ==
    LET tz == CollectTz(options.hash)
    IN  IF ~tz.ok THEN FromOptions("Err", NoOffset, tz.err, NoRet)
        ELSE IF Len(tz.val) = 1 THEN offset_from_tz(tz.val[1])
        ELSE FromOptions("Err", NoOffset, Raise("ArgumentError", "unknown keyword"), NoRet)

(***************************************************************************)
(* trampoline.rs: at                                                       *)
(***************************************************************************)
Shape(subsec, subsec_type, options) ==
    [ok |-> TRUE, subsec |-> subsec, subsec_type |-> subsec_type,
     options |-> options, err |-> NoResult]
BadShape(msg) ==
    [ok |-> FALSE, subsec |-> NoValue, subsec_type |-> NoValue,
     options |-> NoValue, err |-> Raise("ArgumentError", msg)]

\* a faulty variant of the match: a lone unit Symbol is taken without a subsecond
at_shape_lone_unit(opt1, opt2, opt3) ==
    LET t1 == ruby_type(opt1)
        t2 == ruby_type(opt2)
        t3 == ruby_type(opt3)
    IN  IF t1 = "None" /\ t2 = "None" /\ t3 = "None" THEN Shape(NoValue, NoValue, NoValue)
        ELSE IF t1 = "Hash" /\ t2 = "None" /\ t3 = "None" THEN Shape(NoValue, NoValue, opt1)
        ELSE IF t1 = "Fixnum" /\ t2 = "None" /\ t3 = "None" THEN Shape(opt1, NoValue, NoValue)
        ELSE IF t1 = "Symbol" /\ t2 = "None" /\ t3 = "None" THEN Shape(NoValue, opt1, NoValue)
        ELSE IF t1 # "None" /\ t2 = "None" /\ t3 = "None" THEN BadShape("expected a number")
        ELSE IF t1 = "Fixnum" /\ t2 = "Hash" /\ t3 = "None" THEN Shape(opt1, NoValue, opt2)
        ELSE IF t1 = "Fixnum" /\ t2 = "Symbol" /\ t3 = "None" THEN Shape(opt1, opt2, NoValue)
        ELSE IF t1 = "Fixnum" /\ t2 # "None" /\ t3 = "None"
        THEN BadShape("expected one of [:milliseconds, :usec, :nsec]")
        ELSE IF t1 = "Fixnum" /\ t2 = "Symbol" /\ t3 = "Hash" THEN Shape(opt1, opt2, opt3)
        ELSE BadShape("invalid arguments")

\* the match on the Ruby types of opt1, opt2, opt3, arm by arm
at_shape(opt1, opt2, opt3) ==
    LET t1 == ruby_type(opt1)
        t2 == ruby_type(opt2)
        t3 == ruby_type(opt3)
    IN  IF t1 = "None" /\ t2 = "None" /\ t3 = "None" THEN Shape(NoValue, NoValue, NoValue)
        ELSE IF t1 = "Hash" /\ t2 = "None" /\ t3 = "None" THEN Shape(NoValue, NoValue, opt1)
        ELSE IF t1 = "Fixnum" /\ t2 = "None" /\ t3 = "None" THEN Shape(opt1, NoValue, NoValue)
        ELSE IF t1 # "None" /\ t2 = "None" /\ t3 = "None" THEN BadShape("expected a number")
        ELSE IF t1 = "Fixnum" /\ t2 = "Hash" /\ t3 = "None" THEN Shape(opt1, NoValue, opt2)
        ELSE IF t1 = "Fixnum" /\ t2 = "Symbol" /\ t3 = "None" THEN Shape(opt1, opt2, NoValue)
        ELSE IF t1 = "Fixnum" /\ t2 # "None" /\ t3 = "None"
        THEN BadShape("expected one of [:milliseconds, :usec, :nsec]")
        ELSE IF t1 = "Fixnum" /\ t2 = "Symbol" /\ t3 = "Hash" THEN Shape(opt1, opt2, opt3)
        ELSE BadShape("invalid arguments")

\* a faulty variant of the range match: one second of nanoseconds is accepted
nanos_range_inclusive(n) ==
    IF I64Leq(I64Of(0), n) /\ I64Leq(n, I64Of(MAX_NANOS + 1)) THEN "ok"
    ELSE IF I64Leq(n, I64Of(-1)) THEN "negative"
    ELSE "large"

\* match subsec { 0..=MAX_NANOS => .., i64::MIN..=-1 => .., _ => .. }
nanos_range(n) ==
    IF I64Leq(I64Of(0), n) /\ I64Leq(n, I64Of(MAX_NANOS)) THEN "ok"
    ELSE IF I64Leq(I64_MIN, n) /\ I64Leq(n, I64Of(-1)) THEN "negative"
    ELSE "large"

SubsecOk(nanos, mult, stage) ==
    [ok |-> TRUE, nanos |-> nanos, mult |-> mult, stage |-> stage, err |-> NoResult]
SubsecErr(mult, stage, e) ==
    [ok |-> FALSE, nanos |-> -1, mult |-> mult, stage |-> stage, err |-> e]

\* let subsec_nanos = if let Some(subsec) = subsec { ... } else { 0 };
\* subsec is a Fixnum here, so its implicit conversion succeeds
subsec_nanos(subsec, subsec_type) ==
    IF subsec = NoValue THEN SubsecOk(0, 0, "seconds")
    ELSE LET m == subsec_multiplier(subsec_type)
         IN  IF ~m.ok THEN SubsecErr(0, "unit", m.err)
             ELSE IF ~checked_mul_is_some(subsec.int, m.val)
             THEN SubsecErr(m.val, "mul", Raise("ArgumentError", "Time too large"))
             ELSE LET n == I64Times(subsec.int, m.val)
                      r == nanos_range(n)
                  IN  IF r = "ok" THEN SubsecOk(I64ToInt(n), m.val, "range")
                      ELSE IF r = "negative"
                      THEN SubsecErr(m.val, "range",
                                     Raise("ArgumentError", "subseconds needs to be > 0"))
                      ELSE SubsecErr(m.val, "range",
                                     Raise("ArgumentError", "subseconds outside of range"))

AtOut(res, h, r, st) == [result |-> res, heap |-> h, ret |-> r, steps |-> st]

\* pub fn at(interp, seconds, opt1, opt2, opt3) -> Result<Value, Error>, on the
\* heap h: the result, the heap after the call, and what was computed
at(seconds, opt1, opt2, opt3, h) ==
    LET shape == at_shape(opt1, opt2, opt3)
    IN  IF ~shape.ok THEN AtOut(shape.err, h, NoRet, Steps("shape", 0, -1))
        ELSE IF ~implicitly_convert_to_int_is_ok(seconds)
        THEN AtOut(Raise("TypeError", "no implicit conversion into Integer"), h, NoRet,
                   Steps("seconds", 0, -1))
        ELSE LET sub == subsec_nanos(shape.subsec, shape.subsec_type)
        IN  IF ~sub.ok THEN AtOut(sub.err, h, NoRet, Steps(sub.stage, sub.mult, -1))
        ELSE LET offset == IF shape.options # NoValue
                           THEN offset_from_options(shape.options)
                           ELSE FromOptions("Ok", local, NoResult, NoRet)
        IN  IF offset.kind # "Ok"
            THEN AtOut(offset.err, h, offset.parsed, Steps("options", sub.mult, sub.nanos))
            ELSE IF with_timespec_and_offset_is_ok(seconds.int, sub.nanos)
            THEN AtOut(Return(Len(h) + 1),
                       Append(h, TimeObject(seconds.int, sub.nanos, offset.offset)),
                       offset.parsed, Steps("alloc", sub.mult, sub.nanos))
            ELSE AtOut(Raise("ArgumentError", "Time too large"), h, offset.parsed,
                       Steps("timespec", sub.mult, sub.nanos))

(***************************************************************************)
(* The boxing layer and the operations of struct Time the trampolines call. *)
(***************************************************************************)
\* the handle a Data value holds
handle_of(v) == I64ToInt(v.int)

\* Time::unbox_from_value: succeeds on a Data value whose object carries the
\* Time tag, and is a type error on every other value
Time_unbox_is_ok(v, h) ==
    /\ ruby_type(v) = "Data"
    /\ handle_of(v) \in 1..Len(h)
    /\ h[handle_of(v)].tag = "Time"

unbox(v, h) == h[handle_of(v)]

UnboxError == Raise("TypeError", "uninitialized Time")

\* Time::box_into_value: the payload replaces the payload of the object of `into`
box_into_value(payload, into, h) == [h EXCEPT ![handle_of(into)] = payload]

\* interp.inspect_type_name_for_value: the name of the value's type
inspect_type_name_for_value(v, h) ==
    IF ruby_type(v) = "Data" THEN h[handle_of(v)].tag
    ELSE IF ruby_type(v) = "Fixnum" THEN "Integer"
    ELSE IF ruby_type(v) = "Nil" THEN "nil"
    ELSE ruby_type(v)

\* Ord for Time, as Ordering's integer: by seconds, then by nanoseconds
Time_cmp(a, b) ==
    IF a.seconds # b.seconds
    THEN (IF I64Leq(a.seconds, b.seconds) THEN -1 ELSE 1)
    ELSE IF a.nanos < b.nanos THEN -1
    ELSE IF a.nanos > b.nanos THEN 1
    ELSE 0

\* PartialEq for Time
Time_eq(a, b) == a.seconds = b.seconds /\ a.nanos = b.nanos

\* Time::set_utc and Time::to_utc: the same instant under Offset::utc()
Time_to_utc(t) == TimeObject(t.seconds, t.nanos, utc)

\* Time::to_int, to_float, nanoseconds, microseconds, second, is_utc
Time_to_int(t) == t.seconds
Time_to_float(t) == Float(t.seconds, t.nanos)
Time_nanoseconds(t) == t.nanos
Time_microseconds(t) == t.nanos \div 1000
Time_second(t) == (I64ToInt(t.seconds) + ut_offset_of(t.offset)) % 60
Time_is_utc(t) == t.offset.tag = "Utc"

(***************************************************************************)
(* trampoline.rs: the methods of a Time.  Each gives the result and the    *)
(* heap after the call on the heap h.                                      *)
(***************************************************************************)
Out(res, h) == [result |-> res, heap |-> h]

\* a faulty variant of to_int: the payload is read without the tag check
to_int_unchecked(time, h) ==
    IF ruby_type(time) = "Data"
    THEN Out(ReturnValue(Fixnum(Time_to_int(unbox(time, h)))), h)
    ELSE Out(UnboxError, h)

\* pub fn to_int(interp, time) -> Result<Value, Error>
to_int(time, h) ==
    IF ~Time_unbox_is_ok(time, h) THEN Out(UnboxError, h)
    ELSE Out(ReturnValue(Fixnum(Time_to_int(unbox(time, h)))), h)

\* pub fn to_float
to_float(time, h) ==
    IF ~Time_unbox_is_ok(time, h) THEN Out(UnboxError, h)
    ELSE Out(ReturnValue(Time_to_float(unbox(time, h))), h)

\* a faulty variant of cmp: the operands are compared the other way round
cmp_reversed(time, other, h) ==
    IF ~Time_unbox_is_ok(time, h) THEN Out(UnboxError, h)
    ELSE IF Time_unbox_is_ok(other, h)
    THEN Out(ReturnValue(Fixnum(I64Of(Time_cmp(unbox(other, h), unbox(time, h))))), h)
    ELSE Out(Raise("ArgumentError",
                   "comparison of Time with "
                       \o inspect_type_name_for_value(other, h) \o " failed"), h)

\* pub fn cmp(interp, time, other) -> Result<Value, Error>
cmp(time, other, h) ==
    IF ~Time_unbox_is_ok(time, h) THEN Out(UnboxError, h)
    ELSE IF Time_unbox_is_ok(other, h)
    THEN Out(ReturnValue(Fixnum(I64Of(Time_cmp(unbox(time, h), unbox(other, h))))), h)
    ELSE Out(Raise("ArgumentError",
                   "comparison of Time with "
                       \o inspect_type_name_for_value(other, h) \o " failed"), h)

\* a faulty variant of eql: an operand that is not a Time is a Time to it
eql_foreign_is_equal(time, other, h) ==
    IF ~Time_unbox_is_ok(time, h) THEN Out(UnboxError, h)
    ELSE IF Time_unbox_is_ok(other, h)
    THEN Out(ReturnValue(Bool(Time_eq(unbox(time, h), unbox(other, h)))), h)
    ELSE Out(ReturnValue(Bool(TRUE)), h)

\* pub fn eql(interp, time, other) -> Result<Value, Error>
eql(time, other, h) ==
    IF ~Time_unbox_is_ok(time, h) THEN Out(UnboxError, h)
    ELSE IF Time_unbox_is_ok(other, h)
    THEN Out(ReturnValue(Bool(Time_eq(unbox(time, h), unbox(other, h)))), h)
    ELSE Out(ReturnValue(Bool(FALSE)), h)

\* pub fn initialize_copy(interp, time, from) -> Result<Value, Error>
initialize_copy(time, from, h) ==
    IF ~Time_unbox_is_ok(from, h) THEN Out(UnboxError, h)
    ELSE Out(Return(handle_of(time)), box_into_value(unbox(from, h), time, h))

\* pub fn mutate_to_utc(interp, time) -> Result<Value, Error>
mutate_to_utc(time, h) ==
    IF ~Time_unbox_is_ok(time, h) THEN Out(UnboxError, h)
    ELSE Out(Return(handle_of(time)),
             [h EXCEPT ![handle_of(time)] = Time_to_utc(unbox(time, h))])

\* a faulty variant of as_utc: the receiver is converted in place as well
as_utc_in_place(time, h) ==
    IF ~Time_unbox_is_ok(time, h) THEN Out(UnboxError, h)
    ELSE Out(Return(Len(h) + 1),
             Append([h EXCEPT ![handle_of(time)] = Time_to_utc(unbox(time, h))],
                    Time_to_utc(unbox(time, h))))

\* pub fn as_utc(interp, time) -> Result<Value, Error>
as_utc(time, h) ==
    IF ~Time_unbox_is_ok(time, h) THEN Out(UnboxError, h)
    ELSE Out(Return(Len(h) + 1), Append(h, Time_to_utc(unbox(time, h))))

\* pub fn second
second(time, h) ==
    IF ~Time_unbox_is_ok(time, h) THEN Out(UnboxError, h)
    ELSE Out(ReturnValue(Fixnum(I64Of(Time_second(unbox(time, h))))), h)

\* pub fn is_utc
is_utc(time, h) ==
    IF ~Time_unbox_is_ok(time, h) THEN Out(UnboxError, h)
    ELSE Out(ReturnValue(Bool(Time_is_utc(unbox(time, h)))), h)

\* pub fn microsecond
microsecond(time, h) ==
    IF ~Time_unbox_is_ok(time, h) THEN Out(UnboxError, h)
    ELSE Out(ReturnValue(Fixnum(I64Of(Time_microseconds(unbox(time, h))))), h)

\* pub fn nanosecond
nanosecond(time, h) ==
    IF ~Time_unbox_is_ok(time, h) THEN Out(UnboxError, h)
    ELSE Out(ReturnValue(Fixnum(I64Of(Time_nanoseconds(unbox(time, h))))), h)

(***************************************************************************)
(* The inputs the Offset operations are applied to.                        *)
(***************************************************************************)
\* every text [+-]HHMM of ASCII digits
HHMMTexts ==
    {<<s, Digits[a], Digits[b], Digits[c], Digits[d]>> :
        s \in {"+", "-"}, a \in 1..10, b \in 1..10, c \in 1..10, d \in 1..10}

SmallAlphabet == {"+", "-", "0", "9", ":", "U+0663"}

RECURSIVE TextsOfLen(_)
TextsOfLen(n) ==
    IF n = 0 THEN {<<>>}
    ELSE {Append(t, c) : t \in TextsOfLen(n - 1), c \in SmallAlphabet}

\* every text over SmallAlphabet of at most MaxTextLen characters
SmallTexts == UNION {TextsOfLen(n) : n \in 0..MaxTextLen}

SingleCharTexts ==
    {<<c>> : c \in UpperCase \cup AsciiDigit \cup {"a", "j", "z", " ", "U+0663"}}

OtherTexts ==
    {<<"U", "T", "C">>, <<"u", "t", "c">>, <<"U", "T">>, <<"U", "T", "C", "Z">>,
     <<"Z", "Z">>, <<"A", "A">>, <<"G", "M", "T">>,
     <<"+", "1", "0", "0">>, <<"0", "1", "0", "0">>, <<"+", "0", "1", ":", "0", "0">>,
     <<"+", "0", "1", "0", "0", " ">>, <<" ", "+", "0", "1", "0", "0">>,
     <<"+", "0", "1", "0", "a">>, <<"+", "0", "0", "0", "0", "0">>}

OffsetTexts == HHMMTexts \cup SmallTexts \cup SingleCharTexts \cup OtherTexts

HourSamples == {1, 2, 99, 100, 9999, 10000}

\* the i32 values Offset::from is applied to
OffsetSeconds ==
    (-MaxSmallSecs..MaxSmallSecs)
        \cup {sg * ((h * 3600) + (m * 60) + x) :
                sg \in {1, -1}, h \in HourSamples, m \in {0, 1, 59}, x \in {0, 59}}
        \cup {I32_MIN, I32_MAX}

OffsetCalls ==
    {[op |-> "try_from", text |-> t, seconds |-> 0] : t \in OffsetTexts}
        \cup {[op |-> "from_i32", text |-> <<>>, seconds |-> s] : s \in OffsetSeconds}

(***************************************************************************)
(* The specification of the Offset operations: a call is drawn, and the    *)
(* operation it names is applied to it.                                    *)
(***************************************************************************)
InitOffset ==
    /\ call \in OffsetCalls
    /\ pc = "call"
    /\ ret = NoRet
    /\ heap = <<>>
    /\ result = NoResult
    /\ steps = NoSteps

\* Offset::try_from(input)
TryFromStr ==
    /\ pc = "call"
    /\ call.op = "try_from"
    /\ ret' = try_from(call.text)
    /\ pc' = "done"
    /\ UNCHANGED <<call, heap, result, steps>>

\* Offset::from(seconds)
FromI32 ==
    /\ pc = "call"
    /\ call.op = "from_i32"
    /\ ret' = from_i32(call.seconds)
    /\ pc' = "done"
    /\ UNCHANGED <<call, heap, result, steps>>

NextOffset == TryFromStr \/ FromI32

SpecOffset == InitOffset /\ [][NextOffset]_vars

(***************************************************************************)
(* The calls of Time.at.                                                   *)
(***************************************************************************)
\* most pairs of an options hash
MaxKeys == 2

\* subsecond counts: around zero, around each unit's limit of one second, and
\* around the largest counts each multiplier takes without overflow
SubsecSamples ==
    {I64Of(n) : n \in (-2..2) \cup {999, 1000, 999999, 1000000, 999999999,
                                    1000000000, -1000000000, I32_MAX}}
        \cup {I64Pos(<<854, 36, 372, 223, 9>>), I64Pos(<<855, 36, 372, 223, 9>>),
              I64Neg(<<854, 36, 372, 223, 9>>), I64Neg(<<855, 36, 372, 223, 9>>),
              I64Pos(<<775, 854, 36, 372, 223, 9>>), I64Pos(<<776, 854, 36, 372, 223, 9>>),
              I64Neg(<<775, 854, 36, 372, 223, 9>>), I64Neg(<<776, 854, 36, 372, 223, 9>>),
              I64_MAX, I64_MIN}

UnitNames ==
    {"milliseconds", "usec", "nsec", "microseconds", "nanoseconds", "millisecond", "sec"}

SecondsValues ==
    {Fixnum(I64Of(0)), Fixnum(I64Of(1)), Fixnum(I64Of(-1)), Fixnum(MAX_UNIX_TIME),
     Fixnum(I64Pos(<<800, 532, 233, 976, 767, 67>>)), Fixnum(I64_MAX), Fixnum(I64_MIN),
     Str(<<"0">>), Nil}

\* integer values of `in`: around zero, around the longest designations, and
\* around the ends of i32
InSeconds ==
    {I64Of(n) : n \in {0, 1, -1, 59, -59, 3600, -3600, 359999, 360000, 35999999,
                       -35999999, 36000000, -36000000, I32_MAX, I32_MIN + 1}}
        \cup {I64Neg(<<648, 483, 147, 2>>), I64Neg(<<649, 483, 147, 2>>),
              I64Pos(<<648, 483, 147, 2>>), I64_MAX, I64_MIN}

\* text values of `in`
InTexts ==
    SmallTexts \cup SingleCharTexts \cup OtherTexts
        \cup {<<"+", "0", "1", "0", "0">>, <<"-", "0", "1", "0", "0">>,
              <<"+", "0", "0", "6", "1">>, <<"+", "2", "3", "5", "9">>,
              <<"-", "9", "9", "6", "0">>}

OptionKeys == {Sym("in"), Sym("foo"), Str(<<"i", "n">>)}

FewInValues == {Fixnum(I64Of(0)), Str(<<"Z">>), Str(<<"J">>), Nil}

RECURSIVE PairsOfLen(_)
PairsOfLen(n) ==
    IF n = 0 THEN {<<>>}
    ELSE {Append(h, [key |-> k, val |-> v]) :
            h \in PairsOfLen(n - 1), k \in OptionKeys, v \in FewInValues}

\* a hash holds a key once
DistinctKeys(h) == \A i, j \in 1..Len(h) : h[i].key = h[j].key => i = j

\* options hashes of at most MaxKeys pairs over the few keys and values
FewHashes == {h \in UNION {PairsOfLen(n) : n \in 0..MaxKeys} : DistinctKeys(h)}

\* the hash {in: v}
InHash(v) == <<[key |-> Sym("in"), val |-> v]>>

AtCall(seconds, opt1, opt2, opt3) ==
    [op |-> "at", seconds |-> seconds, opt1 |-> opt1, opt2 |-> opt2, opt3 |-> opt3,
     time |-> NoValue, other |-> NoValue]

ShapeValues ==
    {NoValue, Fixnum(I64Of(1)), Sym("usec"),
     Hash(<<[key |-> Sym("in"), val |-> Fixnum(I64Of(0))]>>), Str(<<"Z">>), Nil}

\* every combination of presence and type of the optional arguments
ShapeCalls ==
    {AtCall(s, o1, o2, o3) :
        s \in {Fixnum(I64Of(0)), Str(<<"0">>)},
        o1 \in ShapeValues, o2 \in ShapeValues, o3 \in ShapeValues}

\* every seconds value with every subsecond count and unit
SubsecCalls ==
    {AtCall(s, Fixnum(n), u, NoValue) :
        s \in SecondsValues, n \in SubsecSamples,
        u \in {NoValue} \cup {Sym(name) : name \in UnitNames}}

\* a call with the options hash h after the p-th accepted prefix of arguments
AtCallWithOptions(p, h) ==
    IF p = 1 THEN AtCall(Fixnum(I64Of(0)), Hash(h), NoValue, NoValue)
    ELSE IF p = 2 THEN AtCall(Fixnum(I64Of(0)), Fixnum(I64Of(1)), Hash(h), NoValue)
    ELSE AtCall(Fixnum(I64Of(0)), Fixnum(I64Of(1)), Sym("nsec"), Hash(h))

\* {in: text} for every text, {in: integer} for every integer, and every small
\* hash, after each accepted prefix of arguments (the texts over SmallAlphabet
\* after the first only)
InTextCalls == {AtCallWithOptions(1, InHash(Str(t))) : t \in InTexts}
InTextAfterSubsecCalls ==
    {AtCallWithOptions(p, InHash(Str(t))) :
        p \in 2..3, t \in SingleCharTexts \cup OtherTexts}
InSecondsCalls == {AtCallWithOptions(p, InHash(Fixnum(n))) : p \in 1..3, n \in InSeconds}
FewHashCalls ==
    {AtCallWithOptions(p, h) : p \in 1..3, h \in FewHashes \cup {InHash(Sym("utc"))}}

(***************************************************************************)
(* The calls of the methods of a Time, and the heaps they run on.          *)
(***************************************************************************)
\* a call of a method on the receiver `time`, with the argument `other` if the
\* method takes one
MethodCall(op, time, other) ==
    [op |-> op, seconds |-> NoValue, opt1 |-> NoValue, opt2 |-> NoValue,
     opt3 |-> NoValue, time |-> time, other |-> other]

InstantSeconds == {I64Of(-1), I64Of(0), I64Of(1)}
InstantNanos == {0, 999999999}
HeapOffsets == {utc, local, fixed(0).offset, fixed(3600).offset}

HeapTimes ==
    {TimeObject(s, n, o) : s \in InstantSeconds, n \in InstantNanos, o \in HeapOffsets}

\* two Times and an object of another native type
Heaps == {<<a, b, ForeignObject>> : a \in HeapTimes, b \in HeapTimes}

\* receivers: a Time, the foreign object, and values that are no objects
Receivers == {Data(1), Data(3), Fixnum(I64Of(0)), Nil}
Operands == {Data(1), Data(2), Data(3), Fixnum(I64Of(0)), Nil, Str(<<"Z">>)}

UnaryOps ==
    {"to_int", "to_float", "mutate_to_utc", "as_utc", "second", "is_utc",
     "microsecond", "nanosecond"}

UnaryCalls == {MethodCall(op, t, NoValue) : op \in UnaryOps, t \in Receivers}
CompareCalls ==
    {MethodCall(op, t, o) : op \in {"cmp", "eql"}, t \in Receivers, o \in Operands}
\* initialize_copy runs on an object the interpreter has allocated
CopyCalls ==
    {MethodCall("initialize_copy", t, o) : t \in {Data(1), Data(3)}, o \in Operands}

(***************************************************************************)
(* The specification of the trampolines: a call is drawn, and its handler  *)
(* runs from its arguments to its result.                                  *)
(***************************************************************************)
Init ==
    /\ \/ /\ \/ call \in ShapeCalls
             \/ call \in SubsecCalls
             \/ call \in InTextCalls
             \/ call \in InTextAfterSubsecCalls
             \/ call \in InSecondsCalls
             \/ call \in FewHashCalls
          /\ heap = <<>>
       \/ /\ \/ call \in UnaryCalls
             \/ call \in CompareCalls
             \/ call \in CopyCalls
          /\ heap \in Heaps
    /\ pc = "call"
    /\ ret = NoRet
    /\ result = NoResult
    /\ steps = NoSteps

\* Time.at(seconds, opt1, opt2, opt3)
At ==
    /\ pc = "call"
    /\ call.op = "at"
    /\ LET out == at(call.seconds, call.opt1, call.opt2, call.opt3, heap)
       IN  /\ result' = out.result
           /\ heap' = out.heap
           /\ ret' = out.ret
           /\ steps' = out.steps
    /\ pc' = "done"
    /\ UNCHANGED call

\* Time#to_i
ToInt ==
    /\ pc = "call"
    /\ call.op = "to_int"
    /\ LET out == to_int(call.time, heap)
       IN  /\ result' = out.result
           /\ heap' = out.heap
    /\ pc' = "done"
    /\ UNCHANGED <<call, ret, steps>>
\* Time#to_f
ToFloat ==
    /\ pc = "call"
    /\ call.op = "to_float"
    /\ LET out == to_float(call.time, heap)
       IN  /\ result' = out.result
           /\ heap' = out.heap
    /\ pc' = "done"
    /\ UNCHANGED <<call, ret, steps>>
\* Time#<=>
Cmp ==
    /\ pc = "call"
    /\ call.op = "cmp"
    /\ LET out == cmp(call.time, call.other, heap)
       IN  /\ result' = out.result
           /\ heap' = out.heap
    /\ pc' = "done"
    /\ UNCHANGED <<call, ret, steps>>
\* Time#eql?, Time#==
Eql ==
    /\ pc = "call"
    /\ call.op = "eql"
    /\ LET out == eql(call.time, call.other, heap)
       IN  /\ result' = out.result
           /\ heap' = out.heap
    /\ pc' = "done"
    /\ UNCHANGED <<call, ret, steps>>
\* Time#initialize_copy
InitializeCopy ==
    /\ pc = "call"
    /\ call.op = "initialize_copy"
    /\ LET out == initialize_copy(call.time, call.other, heap)
       IN  /\ result' = out.result
           /\ heap' = out.heap
    /\ pc' = "done"
    /\ UNCHANGED <<call, ret, steps>>
\* Time#utc, Time#gmtime
MutateToUtc ==
    /\ pc = "call"
    /\ call.op = "mutate_to_utc"
    /\ LET out == mutate_to_utc(call.time, heap)
       IN  /\ result' = out.result
           /\ heap' = out.heap
    /\ pc' = "done"
    /\ UNCHANGED <<call, ret, steps>>
\* Time#getutc, Time#getgm
AsUtc ==
    /\ pc = "call"
    /\ call.op = "as_utc"
    /\ LET out == as_utc(call.time, heap)
       IN  /\ result' = out.result
           /\ heap' = out.heap
    /\ pc' = "done"
    /\ UNCHANGED <<call, ret, steps>>
\* Time#sec
Second ==
    /\ pc = "call"
    /\ call.op = "second"
    /\ LET out == second(call.time, heap)
       IN  /\ result' = out.result
           /\ heap' = out.heap
    /\ pc' = "done"
    /\ UNCHANGED <<call, ret, steps>>
\* Time#utc?
IsUtc ==
    /\ pc = "call"
    /\ call.op = "is_utc"
    /\ LET out == is_utc(call.time, heap)
       IN  /\ result' = out.result
           /\ heap' = out.heap
    /\ pc' = "done"
    /\ UNCHANGED <<call, ret, steps>>
\* Time#usec
Microsecond ==
    /\ pc = "call"
    /\ call.op = "microsecond"
    /\ LET out == microsecond(call.time, heap)
       IN  /\ result' = out.result
           /\ heap' = out.heap
    /\ pc' = "done"
    /\ UNCHANGED <<call, ret, steps>>
\* Time#nsec
Nanosecond ==
    /\ pc = "call"
    /\ call.op = "nanosecond"
    /\ LET out == nanosecond(call.time, heap)
       IN  /\ result' = out.result
           /\ heap' = out.heap
    /\ pc' = "done"
    /\ UNCHANGED <<call, ret, steps>>

Next ==
    \/ At
    \/ ToInt
    \/ ToFloat
    \/ Cmp
    \/ Eql
    \/ InitializeCopy
    \/ MutateToUtc
    \/ AsUtc
    \/ Second
    \/ IsUtc
    \/ Microsecond
    \/ Nanosecond

Spec == Init /\ [][Next]_vars

(***************************************************************************)
(* Claims about the Offset operations, checked under SpecOffset.           *)
(***************************************************************************)
Done(op) == pc = "done" /\ call.op = op

\* the whole hours a military letter stands for, by its position: A..I are 1..9,
\* K..M are 10..12, N..Y are -1..-12
MilitaryHours(c) ==
    LET order == <<"A", "B", "C", "D", "E", "F", "G", "H", "I", "K", "L", "M",
                   "N", "O", "P", "Q", "R", "S", "T", "U", "V", "W", "X", "Y">>
        i == CHOOSE k \in 1..24 : order[k] = c
    IN  IF i <= 12 THEN i ELSE 12 - i

\* C1 (as claimed): every military letter parses to a fixed offset whose UTC
\* offset in seconds is its whole hours times 3600 (A = +3600, M = +43200,
\* N = -3600, Y = -43200).
C1_MilitaryLettersAreWholeHours ==
    (Done("try_from") /\ Len(call.text) = 1 /\ call.text[1] \in UpperCase \ {"J", "Z"})
        => /\ ret.kind = "Ok"
           /\ ret.offset.tag = "Fixed"
           /\ ut_offset_of(ret.offset) = MilitaryHours(call.text[1]) * 3600

\* the value sign x (HH*3600 + MM*60) of a text [+-]HHMM of ASCII digits
HHMMSeconds(t) ==
    (IF t[1] = "-" THEN -1 ELSE 1)
        * ((((DigitValue(t[2]) * 10) + DigitValue(t[3])) * 3600)
            + (((DigitValue(t[4]) * 10) + DigitValue(t[5])) * 60))

\* C2: every text sHHMM, s a sign and HH, MM in 00..99, parses to the Fixed
\* offset of sign x (HH*3600 + MM*60) seconds; the minutes are not bounded at 59
\* ("+0061" is 3660 s, "+9999" is 362340 s, "-9999" is -362340 s).
C2_HHMMParsesToSignedSeconds ==
    /\ (Done("try_from") /\ call.text \in HHMMTexts)
        => /\ ret.kind = "Ok"
           /\ ret.offset.tag = "Fixed"
           /\ ut_offset_of(ret.offset) = HHMMSeconds(call.text)
    /\ (Done("try_from") /\ call.text = <<"+", "0", "0", "6", "1">>)
        => ut_offset_of(ret.offset) = 3660
    /\ (Done("try_from") /\ call.text = <<"+", "9", "9", "9", "9">>)
        => ut_offset_of(ret.offset) = 362340
    /\ (Done("try_from") /\ call.text = <<"-", "9", "9", "9", "9">>)
        => ut_offset_of(ret.offset) = -362340

C2_Witness ==
    /\ Done("try_from")
    /\ call.text = <<"-", "9", "9", "9", "9">>
    /\ ret.kind = "Ok"
    /\ ret.offset.ut_offset = -362340

\* C3: the Utc variant is returned for exactly the texts "Z" and "UTC"; the
\* offset built from the integer 0 or parsed from "+0000" or "-0000" is Fixed,
\* unequal to Utc, and displays the same 0 seconds as Utc.
C3_UtcOnlyFromZAndUTC ==
    /\ pc = "done"
        => ((ret.kind = "Ok" /\ ret.offset.tag = "Utc")
              <=> (call.op = "try_from" /\ call.text \in {<<"Z">>, <<"U", "T", "C">>}))
    /\ (\/ (Done("from_i32") /\ call.seconds = 0)
        \/ (Done("try_from") /\ call.text \in {<<"+", "0", "0", "0", "0">>,
                                                <<"-", "0", "0", "0", "0">>}))
        => /\ ret.kind = "Ok"
           /\ ret.offset.tag = "Fixed"
           /\ ret.offset # utc
           /\ ut_offset_of(ret.offset) = 0
           /\ ut_offset_of(ret.offset) = ut_offset_of(utc)

C3_Witness ==
    /\ Done("try_from")
    /\ call.text = <<"-", "0", "0", "0", "0">>
    /\ ret.kind = "Ok"
    /\ ret.offset.tag = "Fixed"
    /\ ret.offset.ut_offset = 0

\* the text sHHMM of a sign and two two-digit groups, when both are below 100
SignHHMM(sign, hh, mm) ==
    <<sign, Digits[(hh \div 10) + 1], Digits[(hh % 10) + 1],
            Digits[(mm \div 10) + 1], Digits[(mm % 10) + 1]>>

\* C5 (as claimed): the designation of every fixed offset of s seconds is the
\* sign ('-' exactly when s < 0) followed by the two-digit whole hours and the
\* two-digit remaining whole minutes of |s|, the seconds discarded; so -59..-1
\* render as "-0000" and 0..59 as "+0000".
C5_DesignationIsSignHHMM ==
    (Done("from_i32") /\ ret.kind = "Ok")
        => LET s == call.seconds
               abs == IF s < 0 THEN -s ELSE s
               hh == abs \div 3600
               mm == (abs % 3600) \div 60
           IN  /\ hh < 100
               /\ ret.offset.name = SignHHMM(IF s < 0 THEN "-" ELSE "+", hh, mm)
               /\ (s \in -59..-1 => ret.offset.name = <<"-", "0", "0", "0", "0">>)
               /\ (s \in 0..59 => ret.offset.name = <<"+", "0", "0", "0", "0">>)

\* C6 (as claimed): the designation of every fixed offset parsed from an
\* accepted +-HHMM text has exactly five characters, a sign and four decimal
\* digits.
C6_ParsedDesignationHasFiveChars ==
    (Done("try_from") /\ HH_MM_MATCHER_is_match(call.text) /\ ret.kind = "Ok")
        => /\ Len(ret.offset.name) = 5
           /\ ret.offset.name[1] \in {"+", "-"}
           /\ \A i \in 2..5 : ret.offset.name[i] \in AsciiDigit

(***************************************************************************)
(* Claims about Time.at, checked under Spec.                               *)
(***************************************************************************)
\* the finished call of Time.at, with what its arguments were taken for
AtDone == pc = "done" /\ call.op = "at"
AtShape == at_shape(call.opt1, call.opt2, call.opt3)
AtSubsec == AtShape.subsec
AtUnit == AtShape.subsec_type
AtOptions == AtShape.options

\* the arguments were accepted and the seconds converted
AtStarted == AtDone /\ steps.stage \notin {"shape", "seconds"}

\* no Time object was allocated
NoTimeAllocated == heap = <<>>

\* a decimal digit, as the pattern \d takes it
IsDecimalDigit(c) == c \in AsciiDigit \cup NonAsciiDigit

\* the texts the grammar names: a letter A..I or K..Y, "Z", "UTC", or a sign
\* followed by exactly four digits
IsOffsetText(t) ==
    \/ Len(t) = 1 /\ t[1] \in UpperCase \ {"J"}
    \/ t = <<"U", "T", "C">>
    \/ /\ Len(t) = 5
       /\ t[1] \in {"+", "-"}
       /\ \A i \in 2..5 : IsDecimalDigit(t[i])

\* the options are {in: text}
InIsText == AtOptions # NoValue /\ Len(AtOptions.hash) = 1
                /\ AtOptions.hash[1].key = Sym("in")
                /\ ruby_type(AtOptions.hash[1].val) = "String"
InText == AtOptions.hash[1].val.text

AtHasSubsec == AtStarted /\ AtSubsec # NoValue

\* C7 (as claimed): the units milliseconds, microseconds and nanoseconds select
\* the multipliers 1,000,000, 1,000 and 1, no unit selects 1,000, and any other
\* unit is an argument error (:usec and :nsec, short names of two of the units,
\* are not counted among the others).
C7_UnitsByLongNames ==
    AtHasSubsec
        => /\ AtUnit = Sym("milliseconds") => steps.mult = 1000000
           /\ AtUnit = Sym("microseconds") => steps.mult = 1000
           /\ AtUnit = Sym("nanoseconds") => steps.mult = 1
           /\ AtUnit = NoValue => steps.mult = 1000
           /\ (AtUnit # NoValue
                 /\ AtUnit.sym \notin {"milliseconds", "microseconds", "nanoseconds",
                                        "usec", "nsec"})
                => result.kind = "Err" /\ result.class = "ArgumentError"

\* C7 (amended): the unit symbols are :milliseconds (x 1,000,000), :usec
\* (x 1,000) and :nsec (x 1); no unit is x 1,000; every other symbol,
\* :microseconds and :nanoseconds included, is an argument error that names the
\* three; an accepted count times the multiplier is the nanoseconds.
C7_UnitsByCodeNames ==
    AtHasSubsec
        => /\ AtUnit = Sym("milliseconds") => steps.mult = 1000000
           /\ AtUnit = Sym("usec") => steps.mult = 1000
           /\ AtUnit = Sym("nsec") => steps.mult = 1
           /\ AtUnit = NoValue => steps.mult = 1000
           /\ (AtUnit # NoValue /\ AtUnit.sym \notin {"milliseconds", "usec", "nsec"})
                => /\ result = Raise("ArgumentError",
                                     "unexpected unit. expects :milliseconds, :usec, :nsec")
                   /\ steps.mult = 0
                   /\ NoTimeAllocated
           /\ steps.nanos # -1
                => I64Of(steps.nanos) = I64Times(AtSubsec.int, steps.mult)

C7_Witness ==
    /\ AtHasSubsec
    /\ AtUnit = Sym("milliseconds")
    /\ AtSubsec.int = I64Of(999)
    /\ steps.nanos = 999000000
    /\ result.kind = "Ok"

\* the product was computed without overflow: n = subsecond x multiplier
ProductComputed == AtHasSubsec /\ steps.stage \notin {"unit", "mul"}
Product == I64Times(AtSubsec.int, steps.mult)

UnitMultiplier ==
    IF AtUnit = NoValue THEN 1000
    ELSE IF AtUnit.sym = "milliseconds" THEN 1000000
    ELSE IF AtUnit.sym = "usec" THEN 1000
    ELSE IF AtUnit.sym = "nsec" THEN 1
    ELSE 0

\* subsecond x multiplier is outside the signed 64-bit integers
ProductOverflows ==
    /\ AtHasSubsec
    /\ UnitMultiplier # 0
    /\ ~InI64(I64Times(AtSubsec.int, UnitMultiplier))

\* C9 (as claimed): when subsecond x multiplier overflows i64 the call fails
\* with a range error, and no Time is allocated.
C9_OverflowIsRangeError ==
    ProductOverflows
        => /\ result.kind = "Err"
           /\ result.class = "RangeError"
           /\ NoTimeAllocated

\* C9 (amended): when subsecond x multiplier overflows i64 the call fails with
\* the argument error "Time too large" (no range error, no wrapped value), and
\* no Time is allocated.
C9_OverflowIsArgumentError ==
    ProductOverflows
        => /\ result = Raise("ArgumentError", "Time too large")
           /\ steps.stage = "mul"
           /\ steps.nanos = -1
           /\ NoTimeAllocated

C9_Witness ==
    /\ ProductOverflows
    /\ AtSubsec.int = I64Pos(<<776, 854, 36, 372, 223, 9>>)
    /\ AtUnit = NoValue
    /\ result = Raise("ArgumentError", "Time too large")

\* the options hash was looked at: the earlier arguments were accepted
OptionsRead ==
    AtStarted /\ steps.stage \notin {"unit", "mul", "range"} /\ AtOptions # NoValue

\* C10 (as claimed, for keyword keys and `in:` integers within 32 bits): an
\* offset comes only from the hash {in: v}; a hash with another key, or with no
\* key, is an argument error; {in: integer} is the fixed offset of that many
\* seconds, {in: text} is what the Offset Parser returns for the text.
C10_OptionsOnlyIn ==
    (OptionsRead /\ \A i \in 1..Len(AtOptions.hash) : ruby_type(AtOptions.hash[i].key) = "Symbol")
        => LET h == AtOptions.hash
               v == h[1].val
           IN  /\ result.kind = "Ok" => Len(h) = 1 /\ h[1].key = Sym("in")
               /\ (Len(h) = 0 \/ \E i \in 1..Len(h) : h[i].key # Sym("in"))
                    => result.kind = "Err" /\ result.class = "ArgumentError"
               /\ (Len(h) = 1 /\ h[1].key = Sym("in") /\ ruby_type(v) = "Fixnum"
                        /\ InI32(v.int))
                    => /\ result.kind \in {"Ok", "Err"}
                       /\ result.kind = "Err" => result.msg = "Time too large"
                       /\ ret.kind = "Ok"
                       /\ ret.offset.tag = "Fixed"
                       /\ ret.offset.ut_offset = I64ToInt(v.int)
                       /\ result.kind = "Ok" => heap[result.value].offset = ret.offset
               /\ (Len(h) = 1 /\ h[1].key = Sym("in") /\ ruby_type(v) = "String")
                    => /\ ret = try_from(v.text)
                       /\ ret.kind = "Ok" => /\ result.kind = "Ok"
                                             /\ heap[result.value].offset = ret.offset
                       /\ ret.kind = "Err" => /\ result.kind = "Err"
                                              /\ result.class = "ArgumentError"

(***************************************************************************)
(* Claims about the methods of a Time, checked under Spec.                 *)
(***************************************************************************)
MethodDone(op) == pc = "done" /\ call.op = op

\* the value is the handle of an object that carries the Time tag
CarriesTimeTag(v, h) == v.ty = "Data" /\ h[I64ToInt(v.int)].tag = "Time"

\* the payload of the object of v
Payload(v, h) == h[I64ToInt(v.int)]

\* a comparison of a Time receiver with an operand that is not a Time has run
\* (neither method writes the heap)
ForeignCompared(op) ==
    /\ MethodDone(op)
    /\ CarriesTimeTag(call.time, heap)
    /\ ~CarriesTimeTag(call.other, heap)

\* the names of the types of the operands that are not Times
ForeignTypeName ==
    IF call.other = Data(3) THEN "Random"
    ELSE IF call.other.ty = "Fixnum" THEN "Integer"
    ELSE IF call.other.ty = "Nil" THEN "nil"
    ELSE "String"

NamesForeignType ==
    result.msg = "comparison of Time with " \o ForeignTypeName \o " failed"

\* C11 (as claimed): comparing a Time with a value that is not a Time, by cmp
\* or by eql, fails with a type error whose message names the type of that
\* value, and no comparison result is returned.
C11_ForeignOperandIsTypeError ==
    (ForeignCompared("cmp") \/ ForeignCompared("eql"))
        => /\ result.kind = "Err"
           /\ result.class = "TypeError"
           /\ NamesForeignType

\* C11 (amended): cmp of a Time with a value that is not a Time fails with an
\* argument error "comparison of Time with <type> failed" and returns no
\* comparison result; eql of a Time with such a value returns false.
C11_ForeignOperandByMethod ==
    /\ ForeignCompared("cmp")
        => /\ result.kind = "Err"
           /\ result.class = "ArgumentError"
           /\ NamesForeignType
    /\ ForeignCompared("eql")
        => /\ result.kind = "Ok"
           /\ result.imm = Bool(FALSE)

C11_Witness ==
    /\ ForeignCompared("cmp")
    /\ call.other = Nil
    /\ result.class = "ArgumentError"
    /\ result.msg = "comparison of Time with nil failed"

\* a comparison of two Times has run
TimesCompared(op) ==
    /\ MethodDone(op)
    /\ CarriesTimeTag(call.time, heap)
    /\ CarriesTimeTag(call.other, heap)

\* the order of two instants: -1, 0 or 1
InstantOrder(a, b) ==
    LET sa == I64ToInt(a.seconds)
        sb == I64ToInt(b.seconds)
    IN  IF sa < sb \/ (sa = sb /\ a.nanos < b.nanos) THEN -1
        ELSE IF sa = sb /\ a.nanos = b.nanos THEN 0
        ELSE 1

\* C12: for every pair of Times cmp returns -1, 0 or 1 by the order of their
\* instants (seconds, then nanoseconds) and eql returns true exactly when the
\* instants are equal; the Offsets play no part, so the same instant under
\* different Offsets (Utc, Fixed, zone) compares equal.
C12_OrderByInstantOnly ==
    LET a == Payload(call.time, heap)
        b == Payload(call.other, heap)
    IN  /\ TimesCompared("cmp")
            => /\ result.kind = "Ok"
               /\ result.imm = Fixnum(I64Of(InstantOrder(a, b)))
        /\ TimesCompared("eql")
            => /\ result.kind = "Ok"
               /\ result.imm = Bool(InstantOrder(a, b) = 0)
        /\ ((TimesCompared("cmp") \/ TimesCompared("eql"))
              /\ a.seconds = b.seconds /\ a.nanos = b.nanos)
            => result.imm \in {Fixnum(I64Of(0)), Bool(TRUE)}

C12_Witness ==
    /\ TimesCompared("cmp")
    /\ call.time = Data(1)
    /\ call.other = Data(2)
    /\ heap[1].offset.tag = "Fixed"
    /\ heap[2].offset.tag = "Tz"
    /\ heap[1].seconds = heap[2].seconds
    /\ heap[1].nanos = heap[2].nanos
    /\ result.imm = Fixnum(I64Of(0))

\* the handler of `op` runs in this step, on a receiver that is a Time
RunsOnTime(op) ==
    /\ pc = "call"
    /\ pc' = "done"
    /\ call.op = op
    /\ CarriesTimeTag(call.time, heap)

\* the payload t is the instant of the payload u, under Utc
SameInstantUnderUtc(t, u) ==
    /\ t.tag = "Time"
    /\ t.seconds = u.seconds
    /\ t.nanos = u.nanos
    /\ t.offset = OffsetUtc

ReadHandle == IF call.op = "initialize_copy" THEN call.other ELSE call.time

\* C14: when the handle a method reads (the receiver of an accessor, a
\* comparison or a converter, the source of initialize_copy) does not carry the
\* Time tag, the method returns the retrieval's type error, returns no value,
\* allocates no object and writes no payload.
C14_NoPayloadWithoutTagCheck ==
    [][(/\ pc = "call"
        /\ pc' = "done"
        /\ call.op # "at"
        /\ ~CarriesTimeTag(ReadHandle, heap))
          => /\ result'.kind = "Err"
             /\ result'.class = "TypeError"
             /\ result'.value = 0
             /\ result'.imm = NoValue
             /\ heap' = heap]_vars

C14_Witness ==
    /\ MethodDone("initialize_copy")
    /\ call.time = Data(1)
    /\ call.other = Data(3)
    /\ heap[3].tag = "Random"
    /\ result.kind = "Err"
    /\ result.class = "TypeError"
    /\ heap[1].tag = "Time"
    /\ Len(heap) = 3

(***************************************************************************)
(* Further claims about the Offset operations, checked under SpecOffset.   *)
(***************************************************************************)
\* the text is sHH:MM, s a sign and HH, MM ASCII digits
IsColonForm(t) ==
    /\ Len(t) = 6
    /\ t[1] \in {"+", "-"}
    /\ t[4] = ":"
    /\ \A i \in {2, 3, 5, 6} : t[i] \in AsciiDigit

\* the text without its colon
WithoutColon(t) == <<t[1], t[2], t[3], t[5], t[6]>>

\* C15 (as claimed): a text sHH:MM parses, and to the fixed offset the text
\* sHHMM parses to ("+01:00" as "+0100").
C15_ColonFormParses ==
    (Done("try_from") /\ IsColonForm(call.text))
        => /\ ret.kind = "Ok"
           /\ ret.offset.tag = "Fixed"
           /\ ut_offset_of(ret.offset) = HHMMSeconds(WithoutColon(call.text))

\* C17 (as claimed): Offset::from(s) returns, for every i32 s, a Fixed offset
\* whose UTC offset is s, and never aborts.
C17_FixedIsTotal ==
    Done("from_i32")
        => /\ ret.kind = "Ok"
           /\ ret.offset.tag = "Fixed"
           /\ ut_offset_of(ret.offset) = call.seconds

(***************************************************************************)
(* A further claim about Time.at, checked under Spec.                      *)
(***************************************************************************)
\* the Ruby types of the optional arguments ("None": not given)
OptionalTypes == <<call.opt1.ty, call.opt2.ty, call.opt3.ty>>

AcceptedShapes ==
    {<<"None", "None", "None">>, <<"Hash", "None", "None">>,
     <<"Fixnum", "None", "None">>, <<"Fixnum", "Hash", "None">>,
     <<"Fixnum", "Symbol", "None">>, <<"Fixnum", "Symbol", "Hash">>}

\* C16: Time.at goes past the check of its optional arguments exactly for the
\* shapes none, Hash, Integer, Integer Hash, Integer Symbol and Integer Symbol
\* Hash; every other combination of presence and type is an argument error,
\* raised before the seconds are converted (so also when the seconds are no
\* integer) and before a Time is allocated.
C16_AcceptedShapes ==
    AtDone
        => /\ steps.stage = "shape" <=> OptionalTypes \notin AcceptedShapes
           /\ OptionalTypes \notin AcceptedShapes
               => /\ result.kind = "Err"
                  /\ result.class = "ArgumentError"
                  /\ NoTimeAllocated
           /\ (OptionalTypes \in AcceptedShapes /\ call.seconds.ty # "Fixnum")
               => /\ steps.stage = "seconds"
                  /\ result.class = "TypeError"

C16_Witness ==
    /\ AtDone
    /\ call.seconds = Str(<<"0">>)
    /\ call.opt1 = Sym("usec")
    /\ call.opt2 = NoValue
    /\ call.opt3 = NoValue
    /\ steps.stage = "shape"
    /\ result.class = "ArgumentError"
    /\ NoTimeAllocated

=============================================================================
